---- MODULE Spec2Model ----
(***************************************************************************)
(* Model of the discussion orchestrator of server.py: the Team Selector    *)
(* and create_discussion, and the run_stream generator with its turn loop, *)
(* coordinator decision (_pm_brain), streaming and turn-level failure      *)
(* isolation.  The generative service and the SQLite store are the         *)
(* environment: the service's replies and the store's faults are chosen    *)
(* nondeterministically from bounded sets.                                 *)
(***************************************************************************)
EXTENDS Integers, Sequences, FiniteSets, TLC

\* ------------------------------------------------------------------ bounds

\* Environment events of one run_stream that depart from the nominal ones (a
\* coordinator reply other than the first expert offered, a stream other than
\* one fragment, a store fault), under Spec.
MaxDeviations == 1

\* Invocations of run_stream made one after the other under SpecRerun.
MaxRuns == 2

\* Environment events that depart from the nominal ones under SpecRerun.
RerunDeviations == 0

\* Discussions created under SpecCreate.
MaxDiscussions == 1

\* Store faults and other environment events that depart from the nominal
\* ones under SpecAtomic.
AtomicDeviations == 1

\* Turns of a run_stream under the specifications that cut the loop short
\* (SpecAtomic, SpecConcurrent), the loop being range(1, ShortTurns + 1) there.
ShortTurns == 2

\* ------------------------------------------------------- program constants

total_turns == 10

HistoryWindow == 10

TeamSize == 5

PM == "PM"

GenericInstruction == "opinion_please"

PhaseDiverge == "DIVERGE (Ideation)"

PhaseDeepen == "DEEPEN (Critique & Feasibility)"

PhaseConverge == "CONVERGE (Planning)"

defaults ==
    << "strategy_consultant", "financial_controller", "tech_lead",
       "marketing_strategist", "risk_manager" >>

\* ------------------------------------------------------------ sequences

Range(s) == { s[i] : i \in 1..Len(s) }

RECURSIVE SelectSeqBy(_, _)
\* [x for x in s if x \in keep], in the order of s.
SelectSeqBy(s, keep) ==
    IF s = << >> THEN << >>
    ELSE IF Head(s) \in keep
         THEN << Head(s) >> \o SelectSeqBy(Tail(s), keep)
         ELSE SelectSeqBy(Tail(s), keep)

\* s[-n:]
LastN(s, n) ==
    IF Len(s) <= n THEN s ELSE SubSeq(s, Len(s) - n + 1, Len(s))

\* s[:n]
FirstN(s, n) ==
    IF Len(s) <= n THEN s ELSE SubSeq(s, 1, n)

RECURSIVE DistinctKeys(_)
\* The keys of a dict filled in the order of s: each value once, at the place
\* of its first insertion.
DistinctKeys(s) ==
    IF s = << >> THEN << >>
    ELSE LET init == DistinctKeys(FirstN(s, Len(s) - 1))
             x == s[Len(s)]
         IN  IF x \in Range(init) THEN init ELSE Append(init, x)

\* ------------------------------------------------- the generative service

\* A reply of generate_sync in JSON mode, by its shape.  prose: text surrounds
\* the JSON value.  json: "object", "array", "number", "broken" (braces or
\* brackets around text that is no JSON) or "none" (no JSON at all).  An
\* object has the keys in keys; speaker is [type, name] with type "string" or
\* "array" (an unhashable value).  An array has the elements in ids.
Reply(prose, json, keys, speaker, instruction, ids) ==
    [ prose |-> prose, json |-> json, keys |-> keys, speaker |-> speaker,
      instruction |-> instruction, ids |-> ids ]

StrVal(s) == [ type |-> "string", name |-> s ]

ArrVal == [ type |-> "array", name |-> "" ]

\* {"next_speaker": role, "instruction": instr}
DecisionReply(role, instr) ==
    Reply(FALSE, "object", {"next_speaker", "instruction"}, StrVal(role), instr, << >>)

\* The reply of a blocked or failed call in JSON mode: "{}".
EmptyObjectReply ==
    Reply(FALSE, "object", {}, StrVal(""), "", << >>)

\* Prose with no JSON in it.
GarbageReply ==
    Reply(TRUE, "none", {}, StrVal(""), "", << >>)

\* ["id1", ...]
ListReply(prose, ids) ==
    Reply(prose, "array", {}, StrVal(""), "", ids)

\* A JSON string, "...": its text is the pieces one after the other, cut so
\* that the ids occurring in the text are the pieces that are ids.
StringReply(pieces) ==
    Reply(FALSE, "string", {}, StrVal(""), "", pieces)

\* The fragment generate_stream yields in place of further tokens when the
\* service fails.
SystemError == "[System Error]"

\* The text generate_sync returns outside JSON mode (a goal, a report).
GoalText == "goal"

ReportText == "report"

\* ------------------------------------------------------------ the catalog

Agent(id, role) == [ id |-> id, role |-> role, description |-> id ]

PoolIds(pool) == { pool[i].id : i \in 1..Len(pool) }

\* next((a for a in AGENT_POOL if a['id'] == d), None), as a sequence of at most
\* one agent.
FindAgent(pool, d) ==
    LET hits == SelectSeq(pool, LAMBDA a : a.id = d)
    IN  FirstN(hits, 1)

\* ----------------------------------------------------------- Team Selector

\* re.search(r'\[.*?\]', res) then json.loads of the match, or of the whole
\* reply when nothing matches.  raised: the parse raised.  Otherwise kind is
\* the parsed value's type and members what "x in ids" accepts: the elements
\* of a list, the keys of a dict, the substrings of a string.
ParseIds(res) ==
    LET match == res.json = "array" \/ (res.json = "broken")
    IN  IF match
        THEN IF res.json = "array"
             THEN [ raised |-> FALSE, kind |-> "list", members |-> Range(res.ids) ]
             ELSE [ raised |-> TRUE, kind |-> "none", members |-> {} ]
        ELSE IF res.prose \/ res.json = "none"
             THEN [ raised |-> TRUE, kind |-> "none", members |-> {} ]
             ELSE IF res.json = "object"
                  THEN [ raised |-> FALSE, kind |-> "dict", members |-> res.keys ]
                  ELSE IF res.json = "string"
                  THEN [ raised |-> FALSE, kind |-> "str", members |-> Range(res.ids) ]
                  ELSE [ raised |-> FALSE, kind |-> "number", members |-> {} ]

RECURSIVE FillDefaults(_, _, _, _)
\* for d in defaults: if d not in existing and len(selected) < 5: append the
\* catalog's agent d when it has one.
FillDefaults(pool, selected, existing, ds) ==
    IF ds = << >> THEN selected
    ELSE LET d == Head(ds)
             fallback == FindAgent(pool, d)
             sel == IF d \notin existing /\ Len(selected) < TeamSize
                    THEN selected \o fallback
                    ELSE selected
         IN  FillDefaults(pool, sel, existing, Tail(ds))

\* The except branch: [a for a in AGENT_POOL if a['id'] in defaults].
DefaultTeam(pool) ==
    SelectSeq(pool, LAMBDA a : a.id \in Range(defaults))

SelectBestTeam(pool, res) ==
    LET parsed == ParseIds(res)
    IN  IF parsed.raised THEN DefaultTeam(pool)
        \* "id in 5" raises as soon as one agent is tested
        ELSE IF parsed.kind = "number" /\ pool # << >> THEN DefaultTeam(pool)
        ELSE LET selected == SelectSeq(pool, LAMBDA a : a.id \in parsed.members)
                 existing == { selected[i].id : i \in 1..Len(selected) }
                 filled == IF Len(selected) < TeamSize
                           THEN FillDefaults(pool, selected, existing, defaults)
                           ELSE selected
             IN  FirstN(filled, TeamSize)

\* ------------------------------------------------------------- the store

\* The rowid SQLite gives a row inserted into messages.
NextId(msgs) ==
    IF msgs = << >> THEN 1
    ELSE LET ids == { msgs[i].id : i \in 1..Len(msgs) }
         IN  (CHOOSE m \in ids : \A n \in ids : n <= m) + 1

SaveMsg(msgs, did, sender, content) ==
    Append(msgs, [ id |-> NextId(msgs), discussion_id |-> did,
                   sender |-> sender, content |-> content ])

\* SELECT * FROM messages WHERE discussion_id = ? ORDER BY id ASC
MessagesOf(msgs, did) ==
    SelectSeq(msgs, LAMBDA m : m.discussion_id = did)

\* SELECT * FROM roles WHERE discussion_id = ?
RolesOf(rs, did) ==
    SelectSeq(rs, LAMBDA r : r.discussion_id = did)

RoleNames(rows) == [ i \in 1..Len(rows) |-> rows[i].role_name ]

\* --------------------------------------------------------------- creation

\* The store and the returned tuple after create_discussion(task) with the
\* fresh id did, the Team Selector's reply res and the Goal Definer's text.
CreateDiscussion(store, pool, did, task, res, goal) ==
    LET selected_agents == SelectBestTeam(pool, res)
        team == [ i \in 1..Len(selected_agents) |-> selected_agents[i].role ]
        rows == [ i \in 1..Len(selected_agents) |->
                    [ discussion_id |-> did,
                      role_name |-> selected_agents[i].role,
                      description |-> selected_agents[i].description,
                      agent_id |-> selected_agents[i].id ] ]
        pm_msg == << "opening", goal >> \o team
        \* roles_desc[agent['role']] = agent['description']: the last agent of
        \* a role name wins
        roles_desc == [ n \in Range(team) |->
                          LET i == CHOOSE i \in 1..Len(team) :
                                     /\ team[i] = n
                                     /\ \A j \in 1..Len(team) : team[j] = n => j <= i
                          IN  selected_agents[i].description ]
    IN  [ discussions |-> store.discussions \cup
                            { [ id |-> did, task |-> task, goal |-> goal,
                                status |-> "active" ] },
          roles |-> store.roles \o rows,
          messages |-> SaveMsg(store.messages, did, PM, pm_msg),
          returned |-> [ id |-> did,
                         roles_desc |-> roles_desc,
                         goal |-> goal, pm_msg |-> pm_msg ] ]

EmptyStore == [ discussions |-> {}, roles |-> << >>, messages |-> << >> ]

\* ---------------------------------------------------- coordinator decision

\* re.search(r'\{.*\}', res) then json.loads of the match, or of the whole
\* reply when nothing matches.
ParseDecision(res) ==
    LET match == res.json = "object" \/ res.json = "broken"
        failed == [ raised |-> TRUE, error |-> "JSONDecodeError", kind |-> "none",
                    keys |-> {}, speaker |-> StrVal(""), instruction |-> "" ]
    IN  IF match
        THEN IF res.json = "object"
             THEN [ raised |-> FALSE, error |-> "", kind |-> "dict",
                    keys |-> res.keys, speaker |-> res.speaker,
                    instruction |-> res.instruction ]
             ELSE failed
        ELSE IF res.prose \/ res.json = "none"
             THEN failed
             ELSE [ raised |-> FALSE, error |-> "",
                    kind |-> IF res.json = "array" THEN "list"
                             ELSE IF res.json = "string" THEN "str" ELSE "number",
                    keys |-> {}, speaker |-> StrVal(""), instruction |-> "" ]

\* _pm_brain: the parsed reply, or on a parse error the fallback
\* {"next_speaker": candidates[0], "instruction": generic}; candidates[0]
\* raises IndexError out of the except branch when there is no candidate.
PmBrain(candidates, res) ==
    LET parsed == ParseDecision(res)
    IN  IF ~parsed.raised THEN parsed
        ELSE IF candidates = << >> THEN [ parsed EXCEPT !.error = "IndexError" ]
        ELSE [ raised |-> FALSE, error |-> "", kind |-> "dict",
               keys |-> {"next_speaker", "instruction"},
               speaker |-> StrVal(candidates[1]),
               instruction |-> GenericInstruction ]

\* candidates[turn % len(candidates)], the list indexed from 0.
CyclicFallback(candidates, turn) ==
    candidates[(turn % Len(candidates)) + 1]

\* ChooseSpeaker without the cyclic override: a name outside the team is kept.
ChooseSpeakerNoOverride(candidates, turn, pm_decision) ==
    IF pm_decision.raised \/ pm_decision.kind # "dict"
       \/ ~({"next_speaker", "instruction"} \subseteq pm_decision.keys)
       \/ pm_decision.speaker.type # "string"
    THEN [ raised |-> TRUE, error |-> "Error", next_role |-> "", instruction |-> "" ]
    ELSE [ raised |-> FALSE, error |-> "",
           next_role |-> pm_decision.speaker.name,
           instruction |-> pm_decision.instruction ]

Raised(error) ==
    [ raised |-> TRUE, error |-> error, next_role |-> "", instruction |-> "" ]

\* run_stream's use of the decision: pm_decision['next_speaker'],
\* pm_decision['instruction'], "next_role not in roles_map" and the cyclic
\* override.  raised: one of them raised (KeyError; TypeError on a value that
\* is no dict or on an unhashable speaker; ZeroDivisionError), or _pm_brain
\* did.
ChooseSpeaker(candidates, turn, pm_decision) ==
    IF pm_decision.raised THEN Raised(pm_decision.error)
    ELSE IF pm_decision.kind # "dict" THEN Raised("TypeError")
    ELSE IF "next_speaker" \notin pm_decision.keys THEN Raised("KeyError")
    ELSE IF "instruction" \notin pm_decision.keys THEN Raised("KeyError")
    ELSE IF pm_decision.speaker.type # "string" THEN Raised("TypeError")
    ELSE IF pm_decision.speaker.name \in Range(candidates)
    THEN [ raised |-> FALSE, error |-> "",
           next_role |-> pm_decision.speaker.name,
           instruction |-> pm_decision.instruction ]
    ELSE IF candidates = << >> THEN Raised("ZeroDivisionError")
    ELSE [ raised |-> FALSE, error |-> "",
           next_role |-> CyclicFallback(candidates, turn),
           instruction |-> pm_decision.instruction ]

\* Phase with its first boundary one turn early.
PhaseOffByOne(turn) ==
    IF turn < 3 THEN PhaseDiverge
    ELSE IF turn <= 7 THEN PhaseDeepen
    ELSE PhaseConverge

\* The phase of a turn.
Phase(turn) ==
    IF turn <= 3 THEN PhaseDiverge
    ELSE IF turn <= 7 THEN PhaseDeepen
    ELSE PhaseConverge

\* [c for c in candidates if c != last_speaker]: the experts the prompt offers.
Available(candidates, last_speaker) ==
    SelectSeq(candidates, LAMBDA c : c # last_speaker)

\* ------------------------------------------------------------ environment

TaskText == "task"

DiscussionIds == << "d1", "d2" >>

\* An id no discussion has.
UnknownId == "unknown"

Strategist == Agent("strategy_consultant", "Strategist")

Controller == Agent("financial_controller", "Controller")

TechLead == Agent("tech_lead", "TechLead")

Marketer == Agent("marketing_strategist", "Marketer")

RiskManager == Agent("risk_manager", "RiskManager")

\* The catalogs (agents.json) of the runs: none, two and five agents.
RunPools ==
    { << >>, << Strategist, Controller >>,
      << Strategist, Controller, TechLead, Marketer, RiskManager >> }

Analyst == Agent("data_analyst", "Analyst")

\* An agent outside the defaults whose role name is also a default agent's.
Shadow == Agent("growth_hacker", "Marketer")

\* The catalogs of the creations: the five defaults among others and out of
\* priority order; the same with a role name carried by two agents; the five
\* defaults alone; three of the defaults; none.
Catalogs ==
    { << Analyst, TechLead, Strategist, RiskManager, Controller, Marketer >>,
      << Shadow, TechLead, Strategist, RiskManager, Controller, Marketer >>,
      << Strategist, Controller, TechLead, Marketer, RiskManager >>,
      << Analyst, RiskManager, Strategist, TechLead >>,
      << >> }

\* The ids a Team Selector reply may name: the catalog's and one of no agent.
ReplyIds(p) == PoolIds(p) \cup Range(defaults) \cup {"nobody"}

RECURSIVE SetToSeq(_)
SetToSeq(S) ==
    IF S = {} THEN << >>
    ELSE LET x == CHOOSE x \in S : TRUE
         IN  << x >> \o SetToSeq(S \ {x})

\* The Team Selector replies: every list of distinct ids, lists naming ids
\* twice and inside prose, and replies that are no list: objects, a number,
\* broken JSON, and strings that are an id or hold one.
TeamReplies(p) ==
    { ListReply(FALSE, SetToSeq(S)) : S \in SUBSET ReplyIds(p) }
    \cup { ListReply(TRUE, SetToSeq(S) \o SetToSeq(S)) :
             S \in { T \in SUBSET ReplyIds(p) : Cardinality(T) <= 1 } }
    \cup { EmptyObjectReply, GarbageReply,
           Reply(FALSE, "object", {"tech_lead", "nobody"}, StrVal(""), "", << >>),
           Reply(TRUE, "object", {"tech_lead"}, StrVal(""), "", << >>),
           Reply(FALSE, "number", {}, StrVal(""), "", << >>),
           Reply(FALSE, "broken", {}, StrVal(""), "", << >>),
           StringReply(<< "tech_lead" >>),
           StringReply(<< "not_a_", "data_analyst" >>) }

\* What the Goal Definer's call returns: a goal, or the error text of a failed
\* call.
Goals == { GoalText, "Error: blocked" }

\* The coordinator replies the service may give when the prompt offers the
\* experts avail of the team candidates.
PmReplies(candidates) ==
    { DecisionReply(r, "ask") : r \in Range(candidates) \cup {"Ghost"} }
    \cup { EmptyObjectReply, GarbageReply,
           ListReply(FALSE, << "Ghost" >>),
           Reply(TRUE, "broken", {}, StrVal(""), "", << >>),
           Reply(TRUE, "object", {"next_speaker", "instruction"}, ArrVal, "ask", << >>),
           Reply(FALSE, "object", {"next_speaker"}, StrVal("Ghost"), "", << >>) }

\* The reply that follows the prompt: the first expert offered, and a name of
\* the service's own when the prompt offers none.
NominalReply(avail) ==
    IF Len(avail) = 0 THEN DecisionReply("Ghost", "ask")
    ELSE DecisionReply(avail[1], "ask")

NominalStream == << "tok1" >>

\* What generate_stream may yield: fragments, and the error fragment in place
\* of further tokens.
Streams ==
    { NominalStream, << >>, << "tok1", "tok2" >>, << SystemError >>,
      << "tok1", SystemError >> }

\* ------------------------------------------------------------------ state

VARIABLES
    pool,          \* AGENT_POOL
    discussions,   \* table discussions
    roles,         \* table roles, in insertion order
    messages,      \* table messages, in insertion order
    returned,      \* what the last create_discussion returned
    run,           \* the run_stream generators, by invocation
    deviations,    \* environment events so far that were not nominal
    limits,        \* how many invocations, deviations and turns the behaviour has
    tx             \* the create_discussion call under way, or the last one

vars ==
<< pool, discussions, roles, messages, returned, run, deviations, limits, tx >>

Runs == 1..MaxRuns

NoReturn ==
    [ id |-> "", roles_desc |-> << >>, goal |-> "", pm_msg |-> << >> ]

\* No create_discussion call yet.  Of a call: pc ("writing" inside the with
\* block, "returned", or "failed" when it raised), its locals did, res, goal
\* and selected_agents, and k, the statements of the with block executed so
\* far; teams[i] is the team selected for the i-th discussion.
NoTx ==
    [ pc |-> "none", did |-> "", res |-> EmptyObjectReply, goal |-> "",
      selected_agents |-> << >>, k |-> 0, teams |-> << >> ]

\* A generator not yet created.
IdleRun ==
    [ pc |-> "idle", did |-> "", task |-> "", goal |-> "", roles_map |-> << >>,
      last_speaker |-> "", turn |-> 0, phase |-> "", history |-> << >>,
      next_role |-> "", instruction |-> "", pm_content |-> << >>,
      full_response |-> << >>, stream |-> << >>,
      events |-> << >>,      \* the events yielded so far
      turn_log |-> << >>,    \* the turns the loop entered
      error_log |-> << >>,   \* the "Turn Error" lines printed
      pm_log |-> << >>,      \* the coordinator's replies and what came of them
      written |-> << >> ]    \* the message rows this generator inserted

\* The state the runs start from: the module loaded with a catalog, and one
\* discussion created.
Created(lim) ==
    \E p \in RunPools :
        LET c == CreateDiscussion(EmptyStore, p, DiscussionIds[1], TaskText,
                                  EmptyObjectReply, GoalText)
        IN  /\ pool = p
            /\ discussions = c.discussions
            /\ roles = c.roles
            /\ messages = c.messages
            /\ returned = c.returned
            /\ run = [ r \in Runs |-> IdleRun ]
            /\ deviations = 0
            /\ limits = lim
            /\ tx = NoTx

\* One invocation, in an environment that may deviate.
Init ==
    Created([ runs |-> 1, deviations |-> MaxDeviations, turns |-> total_turns,
              concurrent |-> FALSE ])

\* Invocations one after the other.
InitRerun ==
    Created([ runs |-> MaxRuns, deviations |-> RerunDeviations,
              turns |-> total_turns, concurrent |-> FALSE ])

\* ----------------------------------------------------------- run_stream

\* _sse_event(event_type, data)
SseEvent(event_type, data) == [ event |-> event_type, data |-> data ]

Yield(s, event_type, data) ==
    [ s EXCEPT !.events = Append(@, SseEvent(event_type, data)) ]

\* NextTurn over range(1, total_turns): one turn short.
NextTurnShort(s) ==
    IF s.turn < limits.turns - 1
    THEN [ s EXCEPT !.turn = @ + 1, !.turn_log = Append(@, s.turn + 1),
                    !.pc = "load" ]
    ELSE [ s EXCEPT !.pc = "synth" ]

\* The for statement's step: the next turn, or the end of the loop after
\* total_turns turns (limits.turns, where a behaviour is cut shorter).
NextTurn(s) ==
    IF s.turn < limits.turns
    THEN [ s EXCEPT !.turn = @ + 1, !.turn_log = Append(@, s.turn + 1),
                    !.pc = "load" ]
    ELSE [ s EXCEPT !.pc = "synth" ]

\* TurnError with break in place of continue: a failed turn ends the loop.
TurnErrorBreaks(s, e) ==
    [ s EXCEPT !.error_log = Append(@, [ turn |-> s.turn, error |-> e ]),
               !.pc = "synth" ]

\* except Exception as e: print(f"Turn Error: {e}"); continue
TurnError(s, e) ==
    NextTurn([ s EXCEPT !.error_log = Append(@, [ turn |-> s.turn, error |-> e ]) ])

\* What the store raises when it fails.
StoreError == "sqlite3.Error"

\* _save_msg in "with sqlite3.connect(DB_PATH) as conn", committed: the rows
\* after it and the generator that made it.
Saved(s, sender, content) ==
    [ s EXCEPT !.written = Append(@, [ turn |-> s.turn, id |-> NextId(messages),
                                       sender |-> sender ]) ]

\* The store raises (sqlite3.Error) in a turn: a deviation.
MayDeviate == deviations < limits.deviations

\* create_discussion's transaction has written and not yet committed: SQLite
\* makes every other writer wait.
Locked == tx.pc = "writing" /\ tx.k >= 1

StoreFault == MayDeviate

\* StartRun without "if not disc: return": the loop runs on an absent row.
StartRunUnchecked(r, did) ==
    /\ run[r].pc = "idle"
    /\ r <= limits.runs
    /\ limits.concurrent \/ \A q \in Runs : q < r => run[q].pc = "done"
    /\ LET roles_map == DistinctKeys(RoleNames(RolesOf(roles, did)))
       IN  run' = [ run EXCEPT ![r] =
                      NextTurn([ @ EXCEPT !.did = did, !.roles_map = roles_map,
                                          !.last_speaker = PM ]) ]
    /\ UNCHANGED << pool, discussions, roles, messages, returned, deviations, limits, tx >>

\* StartRun that resumes: the turns whose coordinator message is already in the
\* store are skipped.
StartRunResuming(r, did) ==
    /\ run[r].pc = "idle"
    /\ r <= limits.runs
    /\ limits.concurrent \/ \A q \in Runs : q < r => run[q].pc = "done"
    /\ LET disc == { d \in discussions : d.id = did }
           roles_map == DistinctKeys(RoleNames(RolesOf(roles, did)))
           done == Len(SelectSeq(MessagesOf(messages, did),
                                 LAMBDA m : m.sender = PM)) - 1
           resume == IF done < limits.turns THEN done ELSE limits.turns
       IN  IF disc = {}
           THEN run' = [ run EXCEPT ![r] = [ @ EXCEPT !.pc = "done", !.did = did ] ]
           ELSE LET d == CHOOSE d \in disc : TRUE
                IN  run' = [ run EXCEPT ![r] =
                               NextTurn([ @ EXCEPT !.did = did, !.task = d.task,
                                                   !.goal = d.goal,
                                                   !.roles_map = roles_map,
                                                   !.last_speaker = PM,
                                                   !.turn = resume ]) ]
    /\ UNCHANGED << pool, discussions, roles, messages, returned, deviations, limits, tx >>

\* The generator is created and runs to its first yield or its return: the
\* discussion and its roles are read; with no discussion row it returns.
StartRun(r, did) ==
    /\ run[r].pc = "idle"
    /\ r <= limits.runs
    /\ limits.concurrent \/ \A q \in Runs : q < r => run[q].pc = "done"
    /\ LET disc == { d \in discussions : d.id = did }
           roles_rows == RolesOf(roles, did)
           roles_map == DistinctKeys(RoleNames(roles_rows))
       IN  IF disc = {}
           THEN run' = [ run EXCEPT ![r] = [ @ EXCEPT !.pc = "done", !.did = did ] ]
           ELSE LET d == CHOOSE d \in disc : TRUE
                IN  run' = [ run EXCEPT ![r] =
                               NextTurn([ @ EXCEPT !.did = did, !.task = d.task,
                                                   !.goal = d.goal,
                                                   !.roles_map = roles_map,
                                                   !.last_speaker = PM ]) ]
    /\ UNCHANGED << pool, discussions, roles, messages, returned, deviations, limits, tx >>

\* Lines 196-207: the messages are read, the history window and the phase
\* computed, and the phase status yielded.
LoadHistory(r) ==
    /\ run[r].pc = "load"
    /\ \/ /\ LET msgs == MessagesOf(messages, run[r].did)
                  window == LastN(msgs, HistoryWindow)
                  history == [ i \in 1..Len(window) |->
                                 << window[i].sender >> \o window[i].content ]
                  phase == Phase(run[r].turn)
              IN  run' = [ run EXCEPT ![r] =
                             Yield([ @ EXCEPT !.history = history, !.phase = phase,
                                              !.pc = "decide" ],
                                   "status", << "Phase", phase >>) ]
          /\ UNCHANGED deviations
       \/ /\ StoreFault
          /\ run' = [ run EXCEPT ![r] = TurnError(@, StoreError) ]
          /\ deviations' = deviations + 1
    /\ UNCHANGED << pool, discussions, roles, messages, returned, limits, tx >>

\* Lines 210-219: the coordinator's reply and the speaker chosen from it.
PmDecision(r) ==
    /\ run[r].pc = "decide"
    /\ LET s == run[r]
           candidates == s.roles_map
           avail == Available(candidates, s.last_speaker)
       IN  \E res \in PmReplies(candidates) :
             LET nominal == res = NominalReply(avail)
                 choice == ChooseSpeaker(candidates, s.turn, PmBrain(candidates, res))
                 logged == [ s EXCEPT !.pm_log =
                               Append(@, [ turn |-> s.turn, res |-> res,
                                           chosen |-> choice ]) ]
             IN  /\ nominal \/ MayDeviate
                 /\ deviations' = IF nominal THEN deviations ELSE deviations + 1
                 /\ run' = [ run EXCEPT ![r] =
                       IF choice.raised THEN TurnError(logged, choice.error)
                       ELSE [ logged EXCEPT !.next_role = choice.next_role,
                                            !.instruction = choice.instruction,
                                            !.last_speaker = choice.next_role,
                                            !.pc = "save_pm" ] ]
    /\ UNCHANGED << pool, discussions, roles, messages, returned, limits, tx >>

\* Lines 222-224: the coordinator message is built and saved.
SavePm(r) ==
    /\ run[r].pc = "save_pm"
    /\ LET s == run[r]
           pm_content == << s.phase, s.next_role, s.instruction >>
       IN  \/ /\ ~Locked
              /\ messages' = SaveMsg(messages, s.did, PM, pm_content)
              /\ run' = [ run EXCEPT ![r] =
                            [ Saved(s, PM, pm_content) EXCEPT
                                !.pm_content = pm_content, !.pc = "emit_pm" ] ]
              /\ UNCHANGED deviations
           \/ /\ StoreFault
              /\ run' = [ run EXCEPT ![r] =
                            TurnError([ s EXCEPT !.pm_content = pm_content ],
                                      StoreError) ]
              /\ deviations' = deviations + 1
              /\ UNCHANGED messages
    /\ UNCHANGED << pool, discussions, roles, returned, limits, tx >>

\* Line 225: the coordinator message is yielded.
EmitPm(r) ==
    /\ run[r].pc = "emit_pm"
    /\ run' = [ run EXCEPT ![r] =
                  Yield([ @ EXCEPT !.pc = "thinking" ], "message",
                        << PM >> \o run[r].pm_content) ]
    /\ UNCHANGED << pool, discussions, roles, messages, returned, deviations, limits, tx >>

\* Line 228: the thinking status is yielded.
EmitThinking(r) ==
    /\ run[r].pc = "thinking"
    /\ run' = [ run EXCEPT ![r] =
                  Yield([ @ EXCEPT !.pc = "prompt" ], "status",
                        << "thinking", run[r].next_role >>) ]
    /\ UNCHANGED << pool, discussions, roles, messages, returned, deviations, limits, tx >>

\* Lines 230-235: the speaker's prompt is built, stream_start yielded and the
\* stream opened; stream holds what the service will yield.
StreamStart(r) ==
    /\ run[r].pc = "prompt"
    /\ \E out \in Streams :
         LET nominal == out = NominalStream
         IN  /\ nominal \/ MayDeviate
             /\ deviations' = IF nominal THEN deviations ELSE deviations + 1
             /\ run' = [ run EXCEPT ![r] =
                           Yield([ @ EXCEPT !.full_response = << >>, !.stream = out,
                                            !.pc = "streaming" ],
                                 "stream_start", << run[r].next_role >>) ]
    /\ UNCHANGED << pool, discussions, roles, messages, returned, limits, tx >>

\* StreamChunk with "full_response = token": the response holds the last
\* fragment only.
StreamChunkOverwrites(r) ==
    /\ run[r].pc = "streaming"
    /\ run[r].stream # << >>
    /\ LET token == Head(run[r].stream)
       IN  run' = [ run EXCEPT ![r] =
                      Yield([ @ EXCEPT !.full_response = << token >>,
                                       !.stream = Tail(@) ],
                            "stream_chunk", << token >>) ]
    /\ UNCHANGED << pool, discussions, roles, messages, returned, deviations, limits, tx >>

\* Lines 235-237: one fragment is appended to the response and yielded.
StreamChunk(r) ==
    /\ run[r].pc = "streaming"
    /\ run[r].stream # << >>
    /\ LET token == Head(run[r].stream)
       IN  run' = [ run EXCEPT ![r] =
                      Yield([ @ EXCEPT !.full_response = Append(@, token),
                                       !.stream = Tail(@) ],
                            "stream_chunk", << token >>) ]
    /\ UNCHANGED << pool, discussions, roles, messages, returned, deviations, limits, tx >>

\* StreamEnd that persists the response before it yields stream_end.
StreamEndAfterSave(r) ==
    /\ run[r].pc = "streaming"
    /\ run[r].stream = << >>
    /\ messages' = SaveMsg(messages, run[r].did, run[r].next_role,
                           run[r].full_response)
    /\ run' = [ run EXCEPT ![r] =
                  Yield([ Saved(run[r], run[r].next_role, run[r].full_response)
                            EXCEPT !.pc = "save_agent" ],
                        "stream_end", << >>) ]
    /\ UNCHANGED << pool, discussions, roles, returned, deviations, limits, tx >>

\* Line 239: the stream is exhausted and stream_end yielded.
StreamEnd(r) ==
    /\ run[r].pc = "streaming"
    /\ run[r].stream = << >>
    /\ run' = [ run EXCEPT ![r] = Yield([ @ EXCEPT !.pc = "save_agent" ],
                                        "stream_end", << >>) ]
    /\ UNCHANGED << pool, discussions, roles, messages, returned, deviations, limits, tx >>

\* SaveAgent that undoes the turn when the save raises: the turn's coordinator
\* message is deleted.
SaveAgentRollsBack(r) ==
    /\ run[r].pc = "save_agent"
    /\ LET s == run[r]
       IN  \/ /\ ~Locked
              /\ messages' = SaveMsg(messages, s.did, s.next_role, s.full_response)
              /\ run' = [ run EXCEPT ![r] =
                            NextTurn(Saved(s, s.next_role, s.full_response)) ]
              /\ UNCHANGED deviations
           \/ /\ StoreFault
              /\ run' = [ run EXCEPT ![r] = TurnError(s, StoreError) ]
              /\ deviations' = deviations + 1
              /\ messages' = SubSeq(messages, 1, Len(messages) - 1)
    /\ UNCHANGED << pool, discussions, roles, returned, limits, tx >>

\* SaveAgent that saves under the discussion of the newest message in the
\* store, as code keeping the current discussion in shared state would.
SaveAgentToLatest(r) ==
    /\ run[r].pc = "save_agent"
    /\ LET s == run[r]
           latest == messages[Len(messages)].discussion_id
       IN  \/ /\ ~Locked
              /\ messages' = SaveMsg(messages, latest, s.next_role, s.full_response)
              /\ run' = [ run EXCEPT ![r] =
                            NextTurn(Saved(s, s.next_role, s.full_response)) ]
              /\ UNCHANGED deviations
           \/ /\ StoreFault
              /\ run' = [ run EXCEPT ![r] = TurnError(s, StoreError) ]
              /\ deviations' = deviations + 1
              /\ UNCHANGED messages
    /\ UNCHANGED << pool, discussions, roles, returned, limits, tx >>

\* SaveAgent with the coordinator's sender in place of the speaker's.
SaveAgentAsCoordinator(r) ==
    /\ run[r].pc = "save_agent"
    /\ LET s == run[r]
       IN  \/ /\ ~Locked
              /\ messages' = SaveMsg(messages, s.did, PM, s.full_response)
              /\ run' = [ run EXCEPT ![r] = NextTurn(Saved(s, PM, s.full_response)) ]
              /\ UNCHANGED deviations
           \/ /\ StoreFault
              /\ run' = [ run EXCEPT ![r] = TurnError(s, StoreError) ]
              /\ deviations' = deviations + 1
              /\ UNCHANGED messages
    /\ UNCHANGED << pool, discussions, roles, returned, limits, tx >>

\* Lines 241-244: the speaker's message is saved and the turn ends.
SaveAgent(r) ==
    /\ run[r].pc = "save_agent"
    /\ LET s == run[r]
       IN  \/ /\ ~Locked
              /\ messages' = SaveMsg(messages, s.did, s.next_role, s.full_response)
              /\ run' = [ run EXCEPT ![r] =
                            NextTurn(Saved(s, s.next_role, s.full_response)) ]
              /\ UNCHANGED deviations
           \/ /\ StoreFault
              /\ run' = [ run EXCEPT ![r] = TurnError(s, StoreError) ]
              /\ deviations' = deviations + 1
              /\ UNCHANGED messages
    /\ UNCHANGED << pool, discussions, roles, returned, limits, tx >>

\* Line 251: the synthesis status is yielded.
EmitSynthesizing(r) ==
    /\ run[r].pc = "synth"
    /\ run' = [ run EXCEPT ![r] = Yield([ @ EXCEPT !.pc = "report" ], "status",
                                        << "Synthesizing" >>) ]
    /\ UNCHANGED << pool, discussions, roles, messages, returned, deviations, limits, tx >>

\* Finish that marks the discussion completed once the report is out.
FinishCompletes(r) ==
    /\ run[r].pc = "report"
    /\ run' = [ run EXCEPT ![r] = Yield([ @ EXCEPT !.pc = "done" ],
                                        "finished", << ReportText >>) ]
    /\ discussions' = { IF d.id = run[r].did THEN [ d EXCEPT !.status = "completed" ]
                        ELSE d : d \in discussions }
    /\ UNCHANGED << pool, roles, messages, returned, deviations, limits, tx >>

\* Lines 252-253: the report is generated from the whole log and yielded in
\* the finished event; the generator returns.
Finish(r) ==
    /\ run[r].pc = "report"
    /\ LET full_log == MessagesOf(messages, run[r].did)
           report == << ReportText >>
       IN  run' = [ run EXCEPT ![r] = Yield([ @ EXCEPT !.pc = "done" ],
                                            "finished", report) ]
    /\ UNCHANGED << pool, discussions, roles, messages, returned, deviations, limits, tx >>

\* ------------------------------------------------------ create_discussion

\* create_discussion(task): the team is selected, the goal defined, and the
\* discussion, its roles and the opening message written in one transaction.
Create(res, goal) ==
    /\ Cardinality(discussions) < MaxDiscussions
    /\ Cardinality(discussions) < Len(DiscussionIds)
    /\ LET did == DiscussionIds[Cardinality(discussions) + 1]
           store == [ discussions |-> discussions, roles |-> roles,
                      messages |-> messages ]
           c == CreateDiscussion(store, pool, did, TaskText, res, goal)
       IN  /\ discussions' = c.discussions
           /\ roles' = c.roles
           /\ messages' = c.messages
           /\ returned' = c.returned
           /\ tx' = [ pc |-> "returned", did |-> did, res |-> res, goal |-> goal,
                      selected_agents |-> SelectBestTeam(pool, res),
                      k |-> Len(SelectBestTeam(pool, res)) + 2,
                      teams |-> Append(tx.teams, SelectBestTeam(pool, res)) ]
    /\ UNCHANGED << pool, run, deviations, limits >>

\* The module loaded with a catalog and an empty store.
InitCreate ==
    /\ pool \in Catalogs
    /\ discussions = {}
    /\ roles = << >>
    /\ messages = << >>
    /\ returned = NoReturn
    /\ run = [ r \in Runs |-> IdleRun ]
    /\ deviations = 0
    /\ limits = [ runs |-> 0, deviations |-> 0, turns |-> total_turns,
                  concurrent |-> FALSE ]
    /\ tx = NoTx

NextCreate ==
    \E res \in TeamReplies(pool), goal \in Goals : Create(res, goal)

SpecCreate == InitCreate /\ [][NextCreate]_vars

\* A step of the generator, taken when its consumer asks for the next event.
RunStep(r) ==
    \/ LoadHistory(r)
    \/ PmDecision(r)
    \/ SavePm(r)
    \/ EmitPm(r)
    \/ EmitThinking(r)
    \/ StreamStart(r)
    \/ StreamChunk(r)
    \/ StreamEnd(r)
    \/ SaveAgent(r)
    \/ EmitSynthesizing(r)
    \/ Finish(r)

Next ==
    \E r \in Runs :
        \/ \E did \in { d.id : d \in discussions } \cup { UnknownId } :
              StartRun(r, did)
        \/ RunStep(r)

Spec == Init /\ [][Next]_vars

SpecRerun == InitRerun /\ [][Next]_vars

\* Spec with a consumer that keeps draining every generator.
FairSpec == Spec /\ \A r \in Runs : WF_vars(RunStep(r))

\* ------------------------------------- create_discussion, by its statements

\* The Team Selector replies of SpecAtomic.
AtomicReplies ==
    { EmptyObjectReply, ListReply(FALSE, << "tech_lead", "nobody" >>) }

\* Lines 113-122: the id is drawn, the team selected, the goal defined, and the
\* with block entered.
CreateBegin(res, goal) ==
    /\ tx.pc \in {"none", "returned", "failed"}
    /\ Cardinality(discussions) < MaxDiscussions
    /\ Cardinality(discussions) < Len(DiscussionIds)
    /\ tx' = [ tx EXCEPT !.pc = "writing",
                         !.did = DiscussionIds[Cardinality(discussions) + 1],
                         !.res = res, !.goal = goal,
                         !.selected_agents = SelectBestTeam(pool, res),
                         !.k = 0 ]
    /\ UNCHANGED << pool, discussions, roles, messages, returned, run, deviations,
                    limits >>

\* CreateWrite on a connection in autocommit mode: each statement is in the
\* store as soon as it is executed.
CreateWriteAutocommit ==
    /\ tx.pc = "writing"
    /\ tx.k < Len(tx.selected_agents) + 2
    /\ LET a == tx.selected_agents[tx.k]
       IN  /\ discussions' =
                IF tx.k = 0
                THEN discussions \cup { [ id |-> tx.did, task |-> TaskText,
                                          goal |-> tx.goal, status |-> "active" ] }
                ELSE discussions
           /\ roles' =
                IF tx.k \in 1..Len(tx.selected_agents)
                THEN Append(roles, [ discussion_id |-> tx.did, role_name |-> a.role,
                                     description |-> a.description,
                                     agent_id |-> a.id ])
                ELSE roles
           /\ messages' =
                IF tx.k = Len(tx.selected_agents) + 1
                THEN SaveMsg(messages, tx.did, PM, << "opening", tx.goal >>)
                ELSE messages
    /\ tx' = [ tx EXCEPT !.k = @ + 1 ]
    /\ UNCHANGED << pool, returned, run, deviations, limits >>

\* Lines 123-134: the next statement of the with block (the INSERT of the
\* discussion, of a role, of the opening message) is executed inside the
\* connection's transaction; no other connection sees it.
CreateWrite ==
    /\ tx.pc = "writing"
    /\ tx.k < Len(tx.selected_agents) + 2
    /\ tx' = [ tx EXCEPT !.k = @ + 1 ]
    /\ UNCHANGED << pool, discussions, roles, messages, returned, run, deviations,
                    limits >>

\* Lines 122-134: a statement of the with block raises; the connection's
\* context manager rolls the transaction back and create_discussion raises.
CreateFault ==
    /\ tx.pc = "writing"
    /\ tx.k < Len(tx.selected_agents) + 2
    /\ StoreFault
    /\ deviations' = deviations + 1
    /\ tx' = [ tx EXCEPT !.pc = "failed" ]
    /\ UNCHANGED << pool, discussions, roles, messages, returned, run, limits >>

\* Lines 134-136: the with block is left, the transaction committed, and the
\* tuple returned.
CreateCommit ==
    /\ tx.pc = "writing"
    /\ tx.k = Len(tx.selected_agents) + 2
    /\ LET store == [ discussions |-> discussions, roles |-> roles,
                      messages |-> messages ]
           c == CreateDiscussion(store, pool, tx.did, TaskText, tx.res, tx.goal)
       IN  /\ discussions' = c.discussions
           /\ roles' = c.roles
           /\ messages' = c.messages
           /\ returned' = c.returned
    /\ tx' = [ tx EXCEPT !.pc = "returned",
                         !.teams = Append(@, tx.selected_agents) ]
    /\ UNCHANGED << pool, run, deviations, limits >>

\* The module loaded with a catalog and an empty store; one reader.
InitAtomic ==
    /\ pool \in RunPools
    /\ discussions = {}
    /\ roles = << >>
    /\ messages = << >>
    /\ returned = NoReturn
    /\ run = [ r \in Runs |-> IdleRun ]
    /\ deviations = 0
    /\ limits = [ runs |-> 1, deviations |-> AtomicDeviations, turns |-> ShortTurns,
                  concurrent |-> FALSE ]
    /\ tx = NoTx

\* create_discussion statement by statement, and a run_stream on the id of a
\* discussion created or being created.
NextAtomic ==
    \/ \E res \in AtomicReplies : CreateBegin(res, GoalText)
    \/ CreateWrite
    \/ CreateFault
    \/ CreateCommit
    \/ \E r \in Runs :
         \/ \E did \in ({ d.id : d \in discussions } \cup { tx.did }) \ { "" } :
              StartRun(r, did)
         \/ RunStep(r)

SpecAtomic == InitAtomic /\ [][NextAtomic]_vars

\* ----------------------------------------------------- concurrent callers

\* The module loaded with a catalog and two discussions created; two
\* run_stream generators may be started, each on any id, and are stepped in
\* any order; their loops are cut to ShortTurns turns, and the service and
\* the store do not deviate.
InitConcurrent ==
    /\ pool = << Strategist, Controller >>
    /\ LET c1 == CreateDiscussion(EmptyStore, pool, DiscussionIds[1], TaskText,
                                  EmptyObjectReply, GoalText)
           c2 == CreateDiscussion(c1, pool, DiscussionIds[2], TaskText,
                                  EmptyObjectReply, GoalText)
       IN  /\ discussions = c2.discussions
           /\ roles = c2.roles
           /\ messages = c2.messages
           /\ returned = c2.returned
    /\ run = [ r \in Runs |-> IdleRun ]
    /\ deviations = 0
    /\ limits = [ runs |-> 2, deviations |-> 0, turns |-> ShortTurns,
                  concurrent |-> TRUE ]
    /\ tx = NoTx

SpecConcurrent == InitConcurrent /\ [][Next]_vars

\* -------------------------------------------------------- the consumer

\* The positions at which the generator is suspended in a yield, its event
\* handed to the consumer.
Suspended(r) ==
    run[r].pc \in {"decide", "thinking", "prompt", "streaming", "save_agent",
                   "report"}

\* The consumer stops draining and the generator is closed: GeneratorExit is
\* raised at the yield, which "except Exception" (line 246) does not catch, and
\* the generator ends where it stands.
Close(r) ==
    /\ Suspended(r)
    /\ run' = [ run EXCEPT ![r] = [ @ EXCEPT !.pc = "closed" ] ]
    /\ UNCHANGED << pool, discussions, roles, messages, returned, deviations,
                    limits, tx >>

\* One invocation with its loop cut to ShortTurns turns, in an environment
\* that may deviate.
InitConsumer ==
    Created([ runs |-> 1, deviations |-> MaxDeviations, turns |-> ShortTurns,
              concurrent |-> FALSE ])

NextConsumer ==
    \/ Next
    \/ \E r \in Runs : Close(r)

\* A generator whose consumer may stop at any event.
SpecConsumer == InitConsumer /\ [][NextConsumer]_vars

\* ------------------------------------------------------------ properties

Exists(did) == \E d \in discussions : d.id = did

\* The role names assigned to a discussion, in load order.
Team(did) == DistinctKeys(RoleNames(RolesOf(roles, did)))

\* The generators that were started on a discussion that exists.
Live == { r \in Runs : run[r].pc # "idle" /\ Exists(run[r].did) }

EventTypes(r) == [ i \in 1..Len(run[r].events) |-> run[r].events[i].event ]

\* The events other than status, by type.
CoreEvents(r) == SelectSeq(EventTypes(r), LAMBDA e : e # "status")

Count(seq, x) == Cardinality({ i \in 1..Len(seq) : seq[i] = x })

UpTo(n) == [ i \in 1..n |-> i ]

\* Turn t of generator r is over.
TurnOver(r, t) ==
    /\ t \in Range(run[r].turn_log)
    /\ t < run[r].turn \/ run[r].pc \in {"synth", "report", "done"}

\* The rows generator r wrote in turn t.
WrittenIn(r, t) == SelectSeq(run[r].written, LAMBDA w : w.turn = t)

\* The store raised in turn t of generator r.
StoreFailedIn(r, t) ==
    \E i \in 1..Len(run[r].error_log) :
        run[r].error_log[i] = [ turn |-> t, error |-> StoreError ]

\* The message row of an id.
Row(id) == CHOOSE m \in Range(messages) : m.id = id

\* What may follow an event other than status, within a turn and across turns.
Follows(a, b) ==
    \/ a = "message" /\ b = "stream_start"
    \/ a = "stream_start" /\ b \in {"stream_chunk", "stream_end"}
    \/ a = "stream_chunk" /\ b \in {"stream_chunk", "stream_end"}
    \/ a = "stream_end" /\ b \in {"message", "finished"}

\* C1: in a run over an existing discussion in which no turn raised, the
\* events other than status go message, stream_start, zero or more
\* stream_chunk, stream_end, turn after turn, every stream_start closed by its
\* stream_end before the next one; when the run has ended there are exactly 10
\* message, 10 stream_start and 10 stream_end events and exactly one finished
\* event, which is the last event.
C1_EventSequence ==
    \A r \in Live :
        run[r].error_log = << >> =>
            LET core == CoreEvents(r)
                all == EventTypes(r)
            IN  /\ core # << >> => core[1] = "message"
                /\ \A i \in 1..(Len(core) - 1) : Follows(core[i], core[i + 1])
                /\ run[r].pc = "done" =>
                      /\ Count(all, "message") = 10
                      /\ Count(all, "stream_start") = 10
                      /\ Count(all, "stream_end") = 10
                      /\ Count(all, "finished") = 1
                      /\ all[Len(all)] = "finished"
                /\ run[r].pc # "done" => Count(all, "finished") = 0

\* A run over an existing discussion ended with no turn having raised, after a
\* stream of two fragments.
C1_Witness ==
    \E r \in Live :
        /\ run[r].pc = "done"
        /\ run[r].error_log = << >>
        /\ Count(EventTypes(r), "stream_chunk") = 11

\* The safety part of C2: the turns entered are 1, 2, ... in order, each once,
\* all 10 of them once the loop is left, and an ended run's last two events
\* are the report-synthesis status and its only finished event.
C2_TurnsInOrder ==
    \A r \in Live :
        LET all == EventTypes(r)
        IN  /\ Len(run[r].turn_log) <= 10
            /\ run[r].turn_log = UpTo(Len(run[r].turn_log))
            /\ run[r].pc \in {"synth", "report", "done"} => run[r].turn_log = UpTo(10)
            /\ run[r].pc = "done" =>
                  /\ Len(all) >= 2
                  /\ run[r].events[Len(all) - 1] =
                        SseEvent("status", << "Synthesizing" >>)
                  /\ all[Len(all)] = "finished"
                  /\ Count(all, "finished") = 1

\* C2: nothing in the turn loop is fatal: with a consumer that keeps draining,
\* whatever turns raise, a run over an existing discussion enters the turns 1
\* to 10 once each in increasing order and eventually ends, having emitted the
\* report-synthesis status and then exactly one finished event.
C2_LoopNeverFatal ==
    /\ []C2_TurnsInOrder
    /\ \A r \in Runs : (r \in Live) ~> (r \in Live /\ run[r].pc = "done")

\* A run ended with its finished event although a turn raised.
C2_Witness ==
    \E r \in Live :
        /\ run[r].pc = "done"
        /\ run[r].error_log # << >>
        /\ Len(Team(run[r].did)) >= 2
        /\ Count(EventTypes(r), "finished") = 1

\* C3: in a discussion with at least 2 assigned roles, the speaker chosen in
\* a turn differs from the speaker chosen in the turn before it, whatever the
\* coordinator service replied.
C3_NoImmediateRepeat ==
    \A r \in Live :
        Len(Team(run[r].did)) >= 2 =>
            \A i \in 1..(Len(run[r].pm_log) - 1) :
                LET a == run[r].pm_log[i]
                    b == run[r].pm_log[i + 1]
                IN  (b.turn = a.turn + 1 /\ ~a.chosen.raised /\ ~b.chosen.raised)
                        => b.chosen.next_role # a.chosen.next_role

\* The senders of the rows generator r wrote in turn t, in order.
SendersIn(r, t) ==
    LET w == WrittenIn(r, t) IN [ i \in 1..Len(w) |-> Row(w[i].id).sender ]

\* A coordinator reply that is a service failure or does not parse: the empty
\* structured-output token "{}", text that holds no JSON, JSON that is broken,
\* or prose around a value that is no object.
IsFailureReply(res) ==
    \/ res = EmptyObjectReply
    \/ res.json \in {"none", "broken"}
    \/ res.prose /\ res.json # "object"

\* C4: on a service failure or a parse failure of the coordinator's call (the
\* soft failure "{}" included) the decision is (candidates[0], the generic
\* instruction), and the turn persists a coordinator message and a message of
\* that speaker.
C4_FallbackOnFailure ==
    \A r \in Live :
        LET team == Team(run[r].did)
        IN  team # << >> =>
              \A i \in 1..Len(run[r].pm_log) :
                LET e == run[r].pm_log[i]
                IN  IsFailureReply(e.res) =>
                      /\ ~e.chosen.raised
                      /\ e.chosen.next_role = team[1]
                      /\ e.chosen.instruction = GenericInstruction
                      /\ (TurnOver(r, e.turn) /\ ~StoreFailedIn(r, e.turn))
                            => SendersIn(r, e.turn) = << PM, team[1] >>

\* A coordinator reply that parses to a decision whose next_speaker is none of
\* the team's role names.
NamesOutsider(res, team) ==
    /\ res.json = "object"
    /\ {"next_speaker", "instruction"} \subseteq res.keys
    /\ res.speaker.type # "string" \/ res.speaker.name \notin Range(team)

\* C5: when the decision's next_speaker is none of the assigned role names,
\* the turn's speaker is candidates[turn mod len(candidates)], and the turn
\* persists exactly one coordinator message and exactly one speaker message,
\* from that role.
C5_CyclicOverride ==
    \A r \in Live :
        LET team == Team(run[r].did)
        IN  team # << >> =>
              \A i \in 1..Len(run[r].pm_log) :
                LET e == run[r].pm_log[i]
                    override == team[(e.turn % Len(team)) + 1]
                IN  NamesOutsider(e.res, team) =>
                      /\ ~e.chosen.raised
                      /\ e.chosen.next_role = override
                      /\ (TurnOver(r, e.turn) /\ ~StoreFailedIn(r, e.turn))
                            => SendersIn(r, e.turn) = << PM, override >>

\* C6: whenever the catalog holds the 5 default ids, create_discussion returns
\* a role mapping of 5 entries and persists 5 role rows, whatever the Team
\* Selector's call replied.
C6_AlwaysFiveRoles ==
    (returned.id # "" /\ Range(defaults) \subseteq PoolIds(pool)) =>
        /\ Cardinality(DOMAIN returned.roles_desc) = 5
        /\ Len(SelectSeq(roles, LAMBDA x : x.discussion_id = returned.id)) = 5

\* C7: run_stream on an id that has no discussion row ends at once: it yields
\* no event and no message is appended to the store.
C7_UnknownDiscussionSilent ==
    \A r \in Runs :
        (run[r].pc # "idle" /\ ~Exists(run[r].did)) =>
            /\ run[r].pc = "done"
            /\ run[r].events = << >>
            /\ run[r].written = << >>
            /\ \A i \in 1..Len(messages) :
                  /\ messages[i].discussion_id # run[r].did
                  /\ messages[i].content[1] = "opening"

\* run_stream was called with an id of no discussion, and has returned.
C7_Witness ==
    \E r \in Runs :
        run[r].pc = "done" /\ run[r].did = UnknownId /\ ~Exists(UnknownId)

\* Generator r is a second invocation on a discussion whose earlier run went
\* through all 10 turns, and has ended with no turn of its own having raised.
Reran(r) ==
    /\ r > 1
    /\ r \in Live
    /\ run[r].pc = "done"
    /\ run[r - 1].pc = "done"
    /\ run[r - 1].did = run[r].did
    /\ run[r - 1].turn_log = UpTo(10)
    /\ run[r].error_log = << >>

\* C8: a second run_stream on a discussion whose earlier run completed its 10
\* turns starts again at turn 1 and, absent turn failures, appends exactly 10
\* coordinator messages and 10 speaker messages after the existing ones; no
\* persisted message is ever changed.
C8_RerunAppends ==
    /\ [](\A r \in Runs :
            Reran(r) =>
              LET ms == SelectSeq(messages, LAMBDA m : m.discussion_id = run[r].did)
                  w == run[r].written
                  senders == [ k \in 1..Len(w) |-> w[k].sender ]
              IN  /\ run[r].turn_log = UpTo(10)
                  /\ Len(w) = 20
                  /\ Count(senders, PM) = 10
                  /\ \E n \in 1..(Len(ms) - 20) :
                        /\ n >= 1 + Len(run[r - 1].written)
                        /\ \A j \in 1..n : ms[j].id < w[1].id
                        /\ \A k \in 1..20 :
                              /\ ms[n + k].id = w[k].id
                              /\ ms[n + k].sender = w[k].sender)
    /\ [][/\ Len(messages') >= Len(messages)
          /\ SubSeq(messages', 1, Len(messages)) = messages]_vars

\* A second run on the same discussion has ended, 20 messages after the first.
C8_Witness ==
    \E r \in Runs :
        /\ Reran(r)
        /\ Len(run[r - 1].written) = 20
        /\ Len(messages) = 41

\* C9: the messages of a discussion have strictly increasing ids, are only
\* ever appended to, and each is sent by "PM" or by a role assigned to that
\* discussion, whatever the coordinator service replied.
C9_MessagesAppendOnly ==
    /\ [](/\ \A i, j \in 1..Len(messages) :
                i < j => messages[i].id < messages[j].id
          /\ \A i \in 1..Len(messages) :
                \/ messages[i].sender = "PM"
                \/ \E k \in 1..Len(roles) :
                      /\ roles[k].discussion_id = messages[i].discussion_id
                      /\ roles[k].role_name = messages[i].sender)
    /\ [][/\ Len(messages') >= Len(messages)
          /\ \A i \in 1..Len(messages) : messages'[i] = messages[i]]_vars

\* A speaker message was persisted in a turn whose coordinator reply named
\* nobody of the team.
C9_Witness ==
    \E r \in Live :
        \E i \in 1..Len(run[r].pm_log) :
            /\ NamesOutsider(run[r].pm_log[i].res, Team(run[r].did))
            /\ Len(WrittenIn(r, run[r].pm_log[i].turn)) = 2

\* The label the turns 1-3, 4-7 and 8-10 carry.
LabelOf(t) ==
    IF t \in 1..3 THEN "DIVERGE (Ideation)"
    ELSE IF t \in 4..7 THEN "DEEPEN (Critique & Feasibility)"
    ELSE IF t \in 8..10 THEN "CONVERGE (Planning)"
    ELSE "none"

\* C10: the phase depends on the turn number alone: turns 1-3 are DIVERGE,
\* 4-7 DEEPEN, 8-10 CONVERGE, in every run; the coordinator message persisted
\* in a turn, and the message event yielded for it once it is saved, carry the
\* turn's label.
C10_PhaseByTurn ==
    \A r \in Live :
        /\ run[r].pc \in {"decide", "save_pm", "emit_pm", "thinking", "prompt",
                           "streaming", "save_agent"}
              => run[r].phase = LabelOf(run[r].turn)
        /\ \A i \in 1..Len(run[r].written) :
              LET w == run[r].written[i]
              IN  w.sender = "PM" =>
                    /\ Row(w.id).content[1] = LabelOf(w.turn)
                    /\ \/ run[r].pc = "emit_pm" /\ i = Len(run[r].written)
                       \/ \E k \in 1..Len(run[r].events) :
                             run[r].events[k] =
                               SseEvent("message", << "PM" >> \o Row(w.id).content)

\* A run has persisted coordinator messages in turns of all three phases.
C10_Witness ==
    \E r \in Live :
        \A t \in {3, 4, 7, 8, 10} :
            \E i \in 1..Len(run[r].written) :
                run[r].written[i].turn = t /\ run[r].written[i].sender = "PM"

\* C11: run_stream leaves the Discussion row and the role assignments as
\* creation wrote them: whatever turns ran or failed, and after finished, the
\* discussion is "active" with its task and goal, its role rows are those of
\* the selected team, and no step deletes or changes a message.
C11_RunLeavesDiscussion ==
    /\ [](\A r \in Live :
            LET rs == SelectSeq(roles, LAMBDA x : x.discussion_id = run[r].did)
            IN  /\ \E d \in discussions :
                      /\ d = [ id |-> run[r].did, task |-> "task", goal |-> "goal",
                               status |-> "active" ]
                      /\ \A e \in discussions : e.id = d.id => e = d
                /\ Len(rs) = Len(pool)
                /\ \A i \in 1..Len(rs) :
                      /\ rs[i].agent_id = pool[i].id
                      /\ rs[i].role_name = pool[i].role)
    /\ [][/\ discussions' = discussions
          /\ roles' = roles
          /\ Len(messages') >= Len(messages)
          /\ SubSeq(messages', 1, Len(messages)) = messages]_vars

\* A run has ended after a failed turn and after turns that wrote messages.
C11_Witness ==
    \E r \in Live :
        /\ run[r].pc = "done"
        /\ run[r].error_log # << >>
        /\ Len(run[r].written) >= 18
        /\ \A d \in discussions : d.status = "active"

\* Turn and position of a generator whose history was read in its current turn.
Loaded(r) ==
    run[r].pc \in {"decide", "save_pm", "emit_pm", "thinking", "prompt",
                   "streaming", "save_agent"}

\* C12: creation is atomic in the store: of every discussion id, either the
\* discussion row, all the role rows of its selected team and its opening
\* coordinator message are in the store, or none of them is, also after a
\* statement of the creation raised; and a run_stream reading while it is
\* created sees either no discussion, or its whole team and opening message.
C12_CreationAtomic ==
    /\ \A i \in 1..Len(DiscussionIds) :
         LET did == DiscussionIds[i]
             rs == SelectSeq(roles, LAMBDA x : x.discussion_id = did)
             ms == SelectSeq(messages, LAMBDA m : m.discussion_id = did)
         IN  IF \E d \in discussions : d.id = did
             THEN /\ i <= Len(tx.teams)
                  /\ Len(rs) = Len(tx.teams[i])
                  /\ \A j \in 1..Len(rs) : rs[j].agent_id = tx.teams[i][j].id
                  /\ ms # << >>
                  /\ ms[1].sender = "PM" /\ ms[1].content[1] = "opening"
             ELSE rs = << >> /\ ms = << >>
    /\ tx.pc = "failed" => \A d \in discussions : d.id # tx.did
    /\ tx.pc = "returned" => \E d \in discussions : d.id = tx.did
    /\ \A r \in Runs :
         run[r].pc # "idle" =>
           \/ run[r].pc = "done" /\ run[r].events = << >> /\ run[r].turn = 0
           \/ \E i \in 1..Len(tx.teams) :
                /\ DiscussionIds[i] = run[r].did
                /\ Range(run[r].roles_map) =
                     { tx.teams[i][j].role : j \in 1..Len(tx.teams[i]) }
                /\ (Loaded(r) /\ run[r].turn = 1) =>
                     /\ run[r].history # << >>
                     /\ SubSeq(run[r].history[1], 1, 2) = << "PM", "opening" >>

\* A creation was rolled back after its discussion row and a role row had been
\* inserted, and a run_stream on its id has returned at once.
C12_Witness ==
    /\ tx.pc = "failed"
    /\ tx.k >= 2
    /\ \E r \in Runs : run[r].pc = "done" /\ run[r].did = tx.did

\* Generator r raised in turn t after it had persisted the turn's coordinator
\* message.
FailedAfterPm(r, t) ==
    /\ \E i \in 1..Len(run[r].error_log) : run[r].error_log[i].turn = t
    /\ WrittenIn(r, t) # << >>

\* C13: a failed turn is not rolled back: when a turn raises after its
\* coordinator message was persisted, that message stays in the store as the
\* turn's only message, no step changes an earlier message, and the history
\* read in the next turn ends with that coordinator message.
C13_FailedTurnKept ==
    /\ [](\A r \in Live :
            \A t \in 1..10 :
              FailedAfterPm(r, t) =>
                LET w == WrittenIn(r, t)
                IN  /\ Len(w) = 1
                    /\ w[1].sender = "PM"
                    /\ \E m \in Range(messages) :
                          /\ m.id = w[1].id
                          /\ m.sender = "PM"
                          /\ m.discussion_id = run[r].did
                          /\ m.content[1] = LabelOf(t)
                          /\ \E i \in 1..Len(run[r].pm_log) :
                                /\ run[r].pm_log[i].turn = t
                                /\ m.content[2] = run[r].pm_log[i].chosen.next_role
                          /\ (run[r].turn = t + 1 /\ Loaded(r)) =>
                                run[r].history[Len(run[r].history)]
                                  = << "PM" >> \o m.content)
    /\ [][/\ Len(messages') >= Len(messages)
          /\ \A i \in 1..Len(messages) : messages'[i] = messages[i]]_vars

\* The turn after a turn that raised once its coordinator message was saved
\* has read its history.
C13_Witness ==
    \E r \in Live :
        \E t \in 1..10 :
            /\ FailedAfterPm(r, t)
            /\ run[r].turn = t + 1
            /\ Loaded(r)
            /\ Len(run[r].written) >= 3

\* The ids a Team Selector reply names: the elements of its list, the keys of
\* a bare object, or a bare string as a whole (a text of several pieces is
\* none of the catalog's ids); none when the reply does not parse or is a
\* number.
NamedIds(res) ==
    IF res.json = "array" THEN { res.ids[i] : i \in 1..Len(res.ids) }
    ELSE IF res.json = "object" /\ ~res.prose THEN res.keys
    ELSE IF res.json = "string" /\ ~res.prose /\ Len(res.ids) = 1 THEN { res.ids[1] }
    ELSE {}

\* The Team Selector's reply names ids.
NamesIds(res) ==
    \/ res.json = "array"
    \/ res.json \in {"object", "string"} /\ ~res.prose

\* C14: for a catalog with unique ids and any reply, the Team Selector returns
\* at most 5 agents, all of the catalog, with pairwise distinct ids; ids that
\* are not the catalog's are dropped; with fewer than 5 valid ids the result
\* is the valid ones followed by the default ids in their priority order,
\* those already selected or absent from the catalog skipped, up to 5; when
\* the reply names no ids (it does not parse, or is no collection) the result
\* is exactly the default ids the catalog has.
C14_TeamSelector ==
    (/\ tx.pc = "returned"
     /\ \A i, j \in 1..Len(pool) : pool[i].id = pool[j].id => i = j) =>
        LET team == tx.selected_agents
            ids == [ i \in 1..Len(team) |-> team[i].id ]
            catalog == { pool[i].id : i \in 1..Len(pool) }
            valid == NamedIds(tx.res) \cap catalog
            validSeq == SelectSeq(pool, LAMBDA a : a.id \in valid)
            fill == SelectSeq(defaults, LAMBDA d : d \notin valid /\ d \in catalog)
            room == 5 - Len(validSeq)
            taken == IF Len(fill) <= room THEN fill ELSE SubSeq(fill, 1, room)
        IN  /\ Len(team) <= 5
            /\ \A i \in 1..Len(team) : \E k \in 1..Len(pool) : team[i] = pool[k]
            /\ \A i, j \in 1..Len(team) : ids[i] = ids[j] => i = j
            /\ (NamesIds(tx.res) /\ Len(validSeq) < 5) =>
                  /\ Len(team) = Len(validSeq) + Len(taken)
                  /\ \A i \in 1..Len(validSeq) : team[i] = validSeq[i]
                  /\ \A i \in 1..Len(taken) : ids[Len(validSeq) + i] = taken[i]
            /\ (NamesIds(tx.res) /\ Len(validSeq) >= 5) =>
                  \A i \in 1..Len(team) : ids[i] \in valid
            /\ ~NamesIds(tx.res) =>
                  { ids[i] : i \in 1..Len(ids) }
                    = { defaults[i] : i \in 1..Len(defaults) } \cap catalog
            /\ Len(SelectSeq(roles, LAMBDA x : x.discussion_id = tx.did)) = Len(team)

\* The largest index of an event of a type among the events ev; 0 when none.
LastIndex(ev, type) ==
    LET at == { i \in 1..Len(ev) : ev[i].event = type }
    IN  IF at = {} THEN 0 ELSE CHOOSE i \in at : \A j \in at : j <= i

\* C15: when a turn's stream has completed and the speaker message is
\* persisted, stream_end is the last event emitted, the message's content is
\* the fragments of the stream_chunk events since the turn's stream_start, in
\* order, and its sender is the one stream_start announced and the turn's
\* coordinator message named; a turn persists at most one speaker message.
C15_StreamPersisted ==
    /\ [][\A r \in Runs :
            LET w == run'[r].written
                ev == run[r].events
                start == LastIndex(ev, "stream_start")
                pm == LastIndex(ev, "message")
                row == messages'[Len(messages')]
            IN  (Len(w) = Len(run[r].written) + 1 /\ w[Len(w)].sender # "PM") =>
                  /\ 0 < pm /\ pm < start /\ start < Len(ev)
                  /\ ev[Len(ev)].event = "stream_end"
                  /\ \A i \in (start + 1)..(Len(ev) - 1) : ev[i].event = "stream_chunk"
                  /\ Len(messages') = Len(messages) + 1
                  /\ row.id = w[Len(w)].id
                  /\ row.content = [ k \in 1..(Len(ev) - 1 - start) |->
                                       ev[start + k].data[1] ]
                  /\ row.sender = ev[start].data[1]
                  /\ row.sender = ev[pm].data[3]]_vars
    /\ [](\A r \in Runs : \A t \in 1..10 :
            Len(SelectSeq(run[r].written,
                          LAMBDA x : x.turn = t /\ x.sender # "PM")) <= 1)

\* A speaker message made of two fragments has been persisted.
C15_Witness ==
    \E r \in Live :
        \E i \in 1..Len(run[r].written) :
            /\ run[r].written[i].sender # "PM"
            /\ Row(run[r].written[i].id).content = << "tok1", "tok2" >>

\* The index among the events ev of the n-th event of a type.
NthIndex(ev, type, n) ==
    CHOOSE i \in 1..Len(ev) :
        /\ ev[i].event = type
        /\ Cardinality({ j \in 1..i : ev[j].event = type }) = n

\* The fragments the service streamed to generator r in its n-th stream.
Fragments(r, n) ==
    LET ev == run[r].events
        from == NthIndex(ev, "stream_start", n)
        to == NthIndex(ev, "stream_end", n)
    IN  [ k \in 1..(to - from - 1) |-> ev[from + k].data[1] ]

\* What a run_stream alone on its discussion appends when the service gives it
\* the replies and streams generator r got, no turn raising: turn after turn
\* the coordinator message of the speaker chosen from the turn's reply, then
\* that speaker's message made of the turn's fragments.
AloneMessages(r) ==
    LET team == Team(run[r].did)
        choice(t) == ChooseSpeaker(team, t, PmBrain(team, run[r].pm_log[t].res))
    IN  [ k \in 1..(2 * Len(run[r].pm_log)) |->
            LET t == (k + 1) \div 2
            IN  IF k % 2 = 1
                THEN [ sender |-> "PM",
                       content |-> << LabelOf(t), choice(t).next_role,
                                      choice(t).instruction >> ]
                ELSE [ sender |-> choice(t).next_role,
                       content |-> Fragments(r, t) ] ]

\* C16: runs of different discussions are independent: however the steps of
\* two run_stream generators are interleaved, each appends messages of its own
\* discussion id only, and a discussion run by one generator alone ends up
\* with its opening message followed by exactly the messages that generator
\* appends when run with no other, given the same replies and streams.
C16_RunsIndependent ==
    \A r \in Live :
        /\ \A i \in 1..Len(run[r].written) :
              Row(run[r].written[i].id).discussion_id = run[r].did
        /\ (/\ run[r].pc = "done"
            /\ run[r].error_log = << >>
            /\ \A q \in Runs \ {r} : run[q].did # run[r].did) =>
              LET ms == SelectSeq(messages, LAMBDA m : m.discussion_id = run[r].did)
                  alone == AloneMessages(r)
              IN  /\ Len(ms) = 1 + Len(alone)
                  /\ Len(alone) = 2 * limits.turns
                  /\ ms[1].content[1] = "opening"
                  /\ \A k \in 1..Len(alone) :
                        /\ ms[k + 1].sender = alone[k].sender
                        /\ ms[k + 1].content = alone[k].content
                        /\ ms[k + 1].id = run[r].written[k].id

\* Two generators on different discussions have both ended, their writes
\* having alternated in the store.
C16_Witness ==
    /\ \A r \in 1..2 : run[r].pc = "done" /\ r \in Live
    /\ run[1].did # run[2].did
    /\ \E i \in 2..(Len(messages) - 1) :
          /\ messages[i].discussion_id # messages[i - 1].discussion_id
          /\ messages[i].discussion_id # messages[i + 1].discussion_id
          /\ messages[i].sender = "PM"

\* Generators 1 and 2 ran on one existing discussion and have both ended with
\* no turn of theirs having raised.
BothRanOn(did) ==
    \A r \in 1..2 :
        /\ r \in Live
        /\ run[r].did = did
        /\ run[r].pc = "done"
        /\ run[r].error_log = << >>

\* C17: two run_stream generators on one discussion, stepped in any order
\* with no locking between them and no turn failing, together append exactly
\* one coordinator message and one speaker message per turn of each (20 and 20
\* for two loops of 10 turns), after the discussion's opening message; the
\* order in which their messages land in the store is not fixed.
C17_ConcurrentSameDiscussion ==
    \A d \in discussions :
        BothRanOn(d.id) =>
            LET ms == SelectSeq(messages, LAMBDA m : m.discussion_id = d.id)
                senders == [ i \in 1..Len(ms) |-> ms[i].sender ]
            IN  /\ ms[1].content[1] = "opening"
                /\ Count(senders, "PM") = 1 + 2 * limits.turns
                /\ Len(ms) = 1 + 4 * limits.turns
                /\ \A r \in 1..2 :
                      /\ Len(run[r].written) = 2 * limits.turns
                      /\ \A i \in 1..Len(run[r].written) :
                            \E k \in 2..Len(ms) : ms[k].id = run[r].written[i].id
                /\ \A i, j \in 1..(2 * limits.turns) :
                      run[1].written[i].id # run[2].written[j].id

\* Both generators have ended on one discussion in whose messages a
\* coordinator message naming a speaker is directly followed by another
\* coordinator message.
C17_Witness ==
    \E d \in discussions :
        /\ BothRanOn(d.id)
        /\ LET ms == SelectSeq(messages, LAMBDA m : m.discussion_id = d.id)
           IN  \E k \in 2..(Len(ms) - 1) :
                 /\ ms[k].sender = "PM"
                 /\ ms[k].content[2] \in Range(Team(d.id))
                 /\ ms[k + 1].sender = "PM"

\* The rows generator r wrote as the coordinator, and as speakers.
PmRows(r) == SelectSeq(run[r].written, LAMBDA w : w.sender = "PM")

SpeakerRows(r) == SelectSeq(run[r].written, LAMBDA w : w.sender # "PM")

\* C18: at every point of a run, every coordinator message event emitted is
\* that of a coordinator message already persisted, and the run has persisted
\* no more speaker messages than it has emitted stream_end events; so when the
\* consumer stops right after a stream_end, the turn's coordinator message is
\* in the store and the speaker's response is not, and never will be.
C18_PersistEmitOrder ==
    /\ [](\A r \in Live :
            LET ev == run[r].events
                shown == SelectSeq(ev, LAMBDA e : e.event = "message")
                pms == PmRows(r)
            IN  /\ Len(shown) <= Len(pms)
                /\ \A k \in 1..Len(shown) :
                      \E m \in Range(messages) :
                          /\ m.id = pms[k].id
                          /\ m.discussion_id = run[r].did
                          /\ shown[k].data = << m.sender >> \o m.content
                /\ Len(SpeakerRows(r)) <= Count(EventTypes(r), "stream_end")
                /\ (run[r].pc = "closed" /\ ev[Len(ev)].event = "stream_end") =>
                      LET w == WrittenIn(r, run[r].turn)
                      IN  /\ Len(w) = 1
                          /\ w[1].sender = "PM"
                          /\ \E m \in Range(messages) :
                                m.id = w[1].id /\ m.content[2] = run[r].next_role
                          /\ Len(SpeakerRows(r)) < Count(EventTypes(r), "stream_end"))
    /\ [][\A r \in Runs :
            run[r].pc = "closed" => (run'[r] = run[r] /\ messages' = messages)]_vars

\* The consumer stopped right after the stream_end of a response of two
\* fragments.
C18_Witness ==
    \E r \in Live :
        /\ run[r].pc = "closed"
        /\ run[r].events[Len(run[r].events)].event = "stream_end"
        /\ run[r].full_response = << "tok1", "tok2" >>

\* C19: in a single run_stream on a discussion, no other run and no turn
\* failing, the messages the run appends alternate coordinator message,
\* speaker message, each speaker message sent by the role the coordinator
\* message right before it names; when the run has ended the discussion holds
\* the messages it had before followed by 10 such pairs.
C19_Alternation ==
    \A r \in Live :
        run[r].error_log = << >> =>
            LET ms == SelectSeq(messages, LAMBDA m : m.discussion_id = run[r].did)
                n == Len(run[r].written)
                before == Len(ms) - n
            IN  /\ before = 1
                /\ ms[1].content[1] = "opening"
                /\ \A k \in 1..n :
                      /\ ms[before + k].id = run[r].written[k].id
                      /\ (k % 2 = 1) => ms[before + k].sender = "PM"
                      /\ (k % 2 = 0) =>
                            /\ ms[before + k].sender # "PM"
                            /\ ms[before + k - 1].sender = "PM"
                            /\ ms[before + k].sender = ms[before + k - 1].content[2]
                            /\ ms[before + k].sender \in Range(Team(run[r].did))
                /\ run[r].pc = "done" => n = 20

\* A run in which no turn failed has ended after the coordinator named another
\* speaker than the first one offered.
C19_Witness ==
    \E r \in Live :
        /\ run[r].pc = "done"
        /\ run[r].error_log = << >>
        /\ Len(run[r].written) = 20
        /\ deviations = 1
        /\ \E i \in 1..Len(run[r].pm_log) :
              run[r].pm_log[i].res # NominalReply(Available(Team(run[r].did), "PM"))
              /\ run[r].pm_log[i].turn = 1


\* C20: when run_stream runs on an existing discussion with no role
\* assignment, every one of the 10 turns fails before anything is persisted,
\* whatever the coordinator service replies: the run appends no message, emits
\* no message, stream_start or stream_end event, and ends with exactly one
\* finished event.
C20_EmptyTeam ==
    \A r \in Live :
        Team(run[r].did) = << >> =>
            /\ run[r].written = << >>
            /\ Len(SelectSeq(messages, LAMBDA m : m.discussion_id = run[r].did)) = 1
            /\ \A i \in 1..Len(run[r].events) :
                  run[r].events[i].event
                      \notin {"message", "stream_start", "stream_chunk", "stream_end"}
            /\ \A i \in 1..Len(run[r].pm_log) : run[r].pm_log[i].chosen.raised
            /\ run[r].pc \notin {"save_pm", "emit_pm", "thinking", "prompt",
                                 "streaming", "save_agent"}
            /\ Len(run[r].error_log) <= total_turns
            /\ Count(EventTypes(r), "finished") <= 1
            /\ run[r].pc = "done" =>
                  /\ Len(run[r].error_log) = total_turns
                  /\ CoreEvents(r) = << "finished" >>

\* A run on a discussion with no role has ended, the coordinator's reply
\* having been unparsable in one turn and a well-formed decision in another.
C20_Witness ==
    \E r \in Live :
        /\ Team(run[r].did) = << >>
        /\ run[r].pc = "done"
        /\ \E i, j \in 1..Len(run[r].pm_log) :
              /\ run[r].pm_log[i].chosen.error = "IndexError"
              /\ run[r].pm_log[j].chosen.error = "ZeroDivisionError"
====
